---- MODULE Spec2Model ----
(***************************************************************************)
(* Model of the course-grade tracker in _GRADES_.py: Section, Course and   *)
(* CourseManager, the JSON persistence in courses_data.json, and the       *)
(* interactive shell (main_menu, setup_course, course_menu).               *)
(*                                                                         *)
(* Numbers.  Grades and weights are Python floats.  The state keeps them   *)
(* as the integers the inputs are drawn from, and the grade arithmetic     *)
(* (sum/len, weight/100, products, running sums, the final quotient) is    *)
(* carried out exactly, on normalised fractions [n, d].  IEEE-754 rounding *)
(* of the intermediate results is not modelled: every numeric statement    *)
(* below is a statement about the exact value of the expression the code   *)
(* evaluates.                                                              *)
(*                                                                         *)
(* Dictionaries.  A Python dict is an insertion-ordered mapping; it is a   *)
(* sequence of entries [k, v] with pairwise distinct keys.                 *)
(***************************************************************************)
EXTENDS Integers, Sequences, FiniteSets, TLC

(***************************************************************************)
(* Bounds and input domains                                                *)
(***************************************************************************)
\* Sections and recorded grades held in memory at one time, over all courses.
MaxEntries == 4

CourseNames == {"Algorithms", "Biology"}
SectionNames == {"HW", "Exam"}
Weights == {0, 40, 60}
Grades == {0, 90}

\* Python's None
None == [type |-> "NoneType"]

(***************************************************************************)
(* Exact arithmetic on fractions                                           *)
(***************************************************************************)
Abs(x) == IF x < 0 THEN -x ELSE x

RECURSIVE Gcd(_, _)
Gcd(a, b) == IF b = 0 THEN a ELSE Gcd(b, a % b)

\* the fraction n/d (d # 0) in lowest terms with a positive denominator
Frac(n, d) ==
    LET g == Gcd(Abs(n), Abs(d))
        s == IF d < 0 THEN -1 ELSE 1
    IN  [n |-> (s * n) \div g, d |-> (s * d) \div g]

Float(x) == Frac(x, 1)
FAdd(x, y) == Frac(x.n * y.d + y.n * x.d, x.d * y.d)
FMul(x, y) == Frac(x.n * y.n, x.d * y.d)
FDiv(x, y) == Frac(x.n * y.d, x.d * y.n)

(***************************************************************************)
(* dict                                                                    *)
(***************************************************************************)
Keys(d) == [i \in 1..Len(d) |-> d[i].k]
Values(d) == [i \in 1..Len(d) |-> d[i].v]
Has(d, key) == \E i \in 1..Len(d) : d[i].k = key
IndexOf(d, key) == CHOOSE i \in 1..Len(d) : d[i].k = key
Get(d, key) == d[IndexOf(d, key)].v
\* d[key] = val: an existing key keeps its position, a new key goes last
Put(d, key, val) ==
    IF Has(d, key)
    THEN [d EXCEPT ![IndexOf(d, key)] = [k |-> key, v |-> val]]
    ELSE Append(d, [k |-> key, v |-> val])

RECURSIVE Sum(_)
Sum(s) == IF s = <<>> THEN Float(0) ELSE FAdd(Sum(SubSeq(s, 1, Len(s) - 1)), Float(s[Len(s)]))

(***************************************************************************)
(* Section                                                                 *)
(***************************************************************************)
Section(name, weight, grades) == [name |-> name, weight |-> weight, grades |-> grades]

\* faulty variant: the new grade is put in front (grades.insert(0, grade))
add_grade_front(section, grade) == [section EXCEPT !.grades = <<grade>> \o @]

add_grade(section, grade) == [section EXCEPT !.grades = Append(@, grade)]

average(section) ==
    IF section.grades # <<>>
    THEN FDiv(Sum(section.grades), Float(Len(section.grades)))
    ELSE Float(0)

(***************************************************************************)
(* Course                                                                  *)
(***************************************************************************)
Course(name, sections) == [name |-> name, sections |-> sections]

\* faulty variant: an existing section is replaced by a fresh one
\* (self.sections[name] = Section(name, weight) on both branches)
add_section_replace(course, name, weight) ==
    [course EXCEPT !.sections = Put(@, name, Section(name, weight, <<>>))]

add_section(course, name, weight) ==
    IF Has(course.sections, name)
    THEN [course EXCEPT !.sections[IndexOf(course.sections, name)].v.weight = weight]
    ELSE [course EXCEPT !.sections = Put(@, name, Section(name, weight, <<>>))]

add_assignment_grade(course, section_name, grade) ==
    IF Has(course.sections, section_name)
    THEN [course EXCEPT !.sections[IndexOf(course.sections, section_name)].v =
                            add_grade(@, grade)]
    ELSE course

update_section_weight(course, section_name, new_weight) ==
    IF Has(course.sections, section_name)
    THEN [course EXCEPT !.sections[IndexOf(course.sections, section_name)].v.weight = new_weight]
    ELSE course

\* faulty variant: the weight is not divided by 100
RECURSIVE OverallLoopRawWeight(_, _)
OverallLoopRawWeight(secs, n) ==
    IF n = 0 THEN Float(0)
    ELSE FAdd(OverallLoopRawWeight(secs, n - 1),
              FMul(average(secs[n].v), Float(secs[n].v.weight)))

\* the loop of calculate_overall_grade over the first n sections
RECURSIVE OverallLoop(_, _)
OverallLoop(secs, n) ==
    IF n = 0 THEN Float(0)
    ELSE FAdd(OverallLoop(secs, n - 1),
              FMul(average(secs[n].v), FDiv(Float(secs[n].v.weight), Float(100))))

calculate_overall_grade(course) == OverallLoop(course.sections, Len(course.sections))

\* faulty variant: the weight of a section without grades is counted too
RECURSIVE CurrentLoopAllWeights(_, _)
CurrentLoopAllWeights(secs, n) ==
    IF n = 0 THEN [total_weight |-> Float(0), total_score |-> Float(0)]
    ELSE LET acc == CurrentLoopAllWeights(secs, n - 1)
             section == secs[n].v
         IN  [total_score  |-> FAdd(acc.total_score,
                                    FMul(average(section), Float(section.weight))),
              total_weight |-> FAdd(acc.total_weight, Float(section.weight))]

\* the loop of calculate_current_grade over the first n sections
RECURSIVE CurrentLoop(_, _)
CurrentLoop(secs, n) ==
    IF n = 0 THEN [total_weight |-> Float(0), total_score |-> Float(0)]
    ELSE LET acc == CurrentLoop(secs, n - 1)
             section == secs[n].v
         IN  IF section.grades # <<>>
             THEN [total_score  |-> FAdd(acc.total_score,
                                         FMul(average(section), Float(section.weight))),
                   total_weight |-> FAdd(acc.total_weight, Float(section.weight))]
             ELSE acc

calculate_current_grade(course) ==
    LET acc == CurrentLoop(course.sections, Len(course.sections))
    IN  IF acc.total_weight = Float(0)
        THEN None
        ELSE FDiv(acc.total_score, acc.total_weight)

(***************************************************************************)
(* Serialization: a JSON object is a dict, a JSON array a sequence         *)
(***************************************************************************)
\* the dict built by assigning the items in turn: a later item overwrites an
\* earlier one with the same key
RECURSIVE DictOf(_)
DictOf(items) ==
    IF items = <<>> THEN <<>>
    ELSE Put(DictOf(SubSeq(items, 1, Len(items) - 1)),
             items[Len(items)].k, items[Len(items)].v)

Section_to_dict(section) ==
    << [k |-> "name", v |-> section.name],
       [k |-> "weight", v |-> section.weight],
       [k |-> "grades", v |-> section.grades] >>

\* faulty variant: the grades are looked up under a key the file never has
\* (data.get("grade", [])), so that the default is always taken
Section_from_dict_default(data) ==
    Section(Get(data, "name"), Get(data, "weight"),
            IF Has(data, "grade") THEN Get(data, "grade") ELSE <<>>)

Section_from_dict(data) ==
    Section(Get(data, "name"), Get(data, "weight"),
            IF Has(data, "grades") THEN Get(data, "grades") ELSE <<>>)

Course_to_dict(course) ==
    << [k |-> "name", v |-> course.name],
       [k |-> "sections",
        v |-> [i \in 1..Len(course.sections) |->
                 [k |-> course.sections[i].k,
                  v |-> Section_to_dict(course.sections[i].v)]]] >>

Course_from_dict(data) ==
    LET items == IF Has(data, "sections") THEN Get(data, "sections") ELSE <<>>
        sections == DictOf([i \in 1..Len(items) |->
                              [k |-> items[i].k, v |-> Section_from_dict(items[i].v)]])
    IN  Course(Get(data, "name"), sections)

(***************************************************************************)
(* CourseManager                                                           *)
(***************************************************************************)
\* the backing file DATA_FILE: absent, JSON text holding data, or text that
\* is not JSON
AbsentFile == [state |-> "absent", data |-> <<>>]
MalformedFile == [state |-> "malformed", data |-> <<>>]
JsonFile(data) == [state |-> "json", data |-> data]

\* faulty variant: an existing key is deleted and inserted again, which moves
\* it to the end of the dict
add_course_reinsert(cs, course) ==
    Append(SelectSeq(cs, LAMBDA e : e.k # course.name), [k |-> course.name, v |-> course])

add_course(cs, course) == Put(cs, course.name, course)

\* faulty variant: no lower bound check, so that a negative index counts from
\* the end of the list
get_course_by_index_unchecked(cs, index) ==
    IF index < Len(cs) /\ -Len(cs) <= index
    THEN Values(cs)[IF index < 0 THEN Len(cs) + index + 1 ELSE index + 1]
    ELSE None

get_course_by_index(cs, index) ==
    IF 0 <= index /\ index < Len(cs) THEN Values(cs)[index + 1] ELSE None

list_courses(cs) == Keys(cs)

\* the file save_data writes
save_data(cs) ==
    JsonFile([i \in 1..Len(cs) |-> [k |-> cs[i].k, v |-> Course_to_dict(cs[i].v)]])

\* faulty variant: no os.path.exists check, so that open() raises on a
\* missing file
load_data_unguarded(f) ==
    IF f.state # "json" THEN [raised |-> TRUE, courses |-> <<>>]
    ELSE [raised |-> FALSE,
          courses |-> DictOf([i \in 1..Len(f.data) |->
                                [k |-> f.data[i].k, v |-> Course_from_dict(f.data[i].v)]])]

\* load_data on a manager whose courses are {}: the courses it ends with, or
\* the exception json.load raises
load_data(f) ==
    IF f.state = "absent" THEN [raised |-> FALSE, courses |-> <<>>]
    ELSE IF f.state = "malformed" THEN [raised |-> TRUE, courses |-> <<>>]
    ELSE [raised |-> FALSE,
          courses |-> DictOf([i \in 1..Len(f.data) |->
                                [k |-> f.data[i].k, v |-> Course_from_dict(f.data[i].v)]])]

(***************************************************************************)
(* State                                                                   *)
(***************************************************************************)
VARIABLES
    courses,    \* CourseManager.courses
    file,       \* content of DATA_FILE
    pc,         \* where the shell is: its prompt, "exit" or "crashed"; "api" without a shell
    pending,    \* new_course of main_menu while setup_course runs, else None
    cur,        \* key of the course that course_menu works on
    sec         \* section_name of the grade-entry loop of course_menu

vars == <<courses, file, pc, pending, cur, sec>>

RECURSIVE CountSections(_)
CountSections(cs) ==
    IF cs = <<>> THEN 0
    ELSE CountSections(Tail(cs)) + Len(Head(cs).v.sections)

RECURSIVE CountGradesIn(_)
CountGradesIn(secs) ==
    IF secs = <<>> THEN 0 ELSE CountGradesIn(Tail(secs)) + Len(Head(secs).v.grades)

RECURSIVE CountGrades(_)
CountGrades(cs) ==
    IF cs = <<>> THEN 0 ELSE CountGrades(Tail(cs)) + CountGradesIn(Head(cs).v.sections)

PendingSections == IF pending = None THEN 0 ELSE Len(pending.sections)

\* room for one more section or one more grade
Room == CountSections(courses) + CountGrades(courses) + PendingSections < MaxEntries

(***************************************************************************)
(* Calls on the manager and on its courses, in any order and with any      *)
(* arguments.  add_course saves by itself; a call that may change a course *)
(* is followed by manager.save_data(), as every such call in course_menu   *)
(* is.                                                                     *)
(***************************************************************************)
Init ==
    /\ courses = <<>>
    /\ file = AbsentFile
    /\ pc = "api"
    /\ pending = None
    /\ cur = ""
    /\ sec = ""

shell == <<pc, pending, cur, sec>>

\* manager.add_course(Course(name))
AddCourse(name) ==
    /\ pc = "api"
    /\ courses' = add_course(courses, Course(name, <<>>))
    /\ file' = save_data(courses')
    /\ UNCHANGED shell

\* manager.courses[c].add_section(name, weight); manager.save_data()
AddSection(c, name, weight) ==
    /\ pc = "api"
    /\ Has(courses, c)
    /\ Has(Get(courses, c).sections, name) \/ Room
    /\ courses' = [courses EXCEPT ![IndexOf(courses, c)].v = add_section(@, name, weight)]
    /\ file' = save_data(courses')
    /\ UNCHANGED shell

\* manager.courses[c].add_assignment_grade(section_name, grade); manager.save_data()
AddAssignmentGrade(c, section_name, grade) ==
    /\ pc = "api"
    /\ Has(courses, c)
    /\ Has(Get(courses, c).sections, section_name) => Room
    /\ courses' = [courses EXCEPT ![IndexOf(courses, c)].v =
                                    add_assignment_grade(@, section_name, grade)]
    /\ file' = save_data(courses')
    /\ UNCHANGED shell

\* manager.courses[c].update_section_weight(section_name, new_weight); manager.save_data()
UpdateSectionWeight(c, section_name, new_weight) ==
    /\ pc = "api"
    /\ Has(courses, c)
    /\ courses' = [courses EXCEPT ![IndexOf(courses, c)].v =
                                    update_section_weight(@, section_name, new_weight)]
    /\ file' = save_data(courses')
    /\ UNCHANGED shell

Next ==
    \/ \E name \in CourseNames : AddCourse(name)
    \/ \E c \in CourseNames, name \in SectionNames, weight \in Weights :
            AddSection(c, name, weight)
    \/ \E c \in CourseNames, name \in SectionNames, grade \in Grades :
            AddAssignmentGrade(c, name, grade)
    \/ \E c \in CourseNames, name \in SectionNames, weight \in Weights :
            UpdateSectionWeight(c, name, weight)

Spec == Init /\ [][Next]_vars

(***************************************************************************)
(* The shell: main_menu, setup_course and course_menu, session after       *)
(* session                                                                 *)
(***************************************************************************)
ShellInit ==
    /\ courses = <<>>
    /\ file \in {AbsentFile, MalformedFile}
    /\ pc = "boot"
    /\ pending = None
    /\ cur = ""
    /\ sec = ""

\* manager = CourseManager(): __init__ calls load_data; an exception leaves
\* main_menu and ends the process
Boot ==
    /\ pc = "boot"
    /\ LET r == load_data(file)
       IN  IF r.raised
           THEN pc' = "crashed" /\ UNCHANGED courses
           ELSE pc' = "main" /\ courses' = r.courses
    /\ UNCHANGED <<file, pending, cur, sec>>

\* main menu, choice 1 with the number typed
MainSelect(number) ==
    /\ pc = "main"
    /\ IF list_courses(courses) = <<>>
       THEN UNCHANGED <<pc, cur>>
       ELSE LET course == get_course_by_index(courses, number - 1)
            IN  IF course # None
                THEN pc' = "course" /\ cur' = course.name
                ELSE UNCHANGED <<pc, cur>>
    /\ UNCHANGED <<courses, file, pending, sec>>

\* main menu, choice 2 with the course name typed
MainAddCourse(course_name) ==
    /\ pc = "main"
    /\ IF Has(courses, course_name)
       THEN UNCHANGED <<pc, pending>>
       ELSE pc' = "setup" /\ pending' = Course(course_name, <<>>)
    /\ UNCHANGED <<courses, file, cur, sec>>

\* setup_course: a section name other than "done" and a weight
SetupSection(section_name, weight) ==
    /\ pc = "setup"
    /\ Has(pending.sections, section_name) \/ Room
    /\ pending' = add_section(pending, section_name, weight)
    /\ UNCHANGED <<courses, file, pc, cur, sec>>

\* setup_course: "done", then manager.add_course(new_course)
SetupDone ==
    /\ pc = "setup"
    /\ courses' = add_course(courses, pending)
    /\ file' = save_data(courses')
    /\ pending' = None
    /\ pc' = "main"
    /\ UNCHANGED <<cur, sec>>

\* main menu, choice 3 (the snapshot is printed), an unknown choice, or
\* choice 1 with something that is not a number
MainOther ==
    /\ pc = "main"
    /\ UNCHANGED vars

\* main menu, choice 4
MainQuit ==
    /\ pc = "main"
    /\ pc' = "exit"
    /\ UNCHANGED <<courses, file, pending, cur, sec>>

\* the program is started again: memory is new, the file is what it was
Restart ==
    /\ pc = "exit"
    /\ pc' = "boot"
    /\ courses' = <<>>
    /\ UNCHANGED <<file, pending, cur, sec>>

\* course menu, choice 1 with the number typed
CourseSelectSection(number) ==
    /\ pc = "course"
    /\ LET sections_list == Keys(Get(courses, cur).sections)
           selected == number - 1
       IN  IF sections_list # <<>> /\ 0 <= selected /\ selected < Len(sections_list)
           THEN pc' = "grades" /\ sec' = sections_list[selected + 1]
           ELSE UNCHANGED <<pc, sec>>
    /\ UNCHANGED <<courses, file, pending, cur>>

\* grade loop: a grade is typed
EnterGrade(grade) ==
    /\ pc = "grades"
    /\ Room
    /\ courses' = [courses EXCEPT ![IndexOf(courses, cur)].v =
                                    add_assignment_grade(@, sec, grade)]
    /\ file' = save_data(courses')
    /\ UNCHANGED <<pc, pending, cur, sec>>

\* grade loop: "done"
GradesDone ==
    /\ pc = "grades"
    /\ pc' = "course"
    /\ sec' = ""
    /\ UNCHANGED <<courses, file, pending, cur>>

\* course menu, choice 2 with the section name and the weight typed
CourseUpdateWeight(section_name, new_weight) ==
    /\ pc = "course"
    /\ courses' = [courses EXCEPT ![IndexOf(courses, cur)].v =
                                    update_section_weight(@, section_name, new_weight)]
    /\ file' = save_data(courses')
    /\ UNCHANGED <<pc, pending, cur, sec>>

\* faulty variant: choice 3 without the call of manager.save_data()
CourseAddSectionUnsaved(section_name, weight) ==
    /\ pc = "course"
    /\ Has(Get(courses, cur).sections, section_name) \/ Room
    /\ courses' = [courses EXCEPT ![IndexOf(courses, cur)].v =
                                    add_section(@, section_name, weight)]
    /\ UNCHANGED <<file, pc, pending, cur, sec>>

\* course menu, choice 3 with the section name and the weight typed
CourseAddSection(section_name, weight) ==
    /\ pc = "course"
    /\ Has(Get(courses, cur).sections, section_name) \/ Room
    /\ courses' = [courses EXCEPT ![IndexOf(courses, cur)].v =
                                    add_section(@, section_name, weight)]
    /\ file' = save_data(courses')
    /\ UNCHANGED <<pc, pending, cur, sec>>

\* course menu: an unknown choice, or input that is not a number where one
\* is asked for
CourseOther ==
    /\ pc = "course"
    /\ UNCHANGED vars

\* course menu, choice 4
CourseReturn ==
    /\ pc = "course"
    /\ pc' = "main"
    /\ cur' = ""
    /\ UNCHANGED <<courses, file, pending, sec>>

ShellNext ==
    \/ Boot
    \/ \E number \in 0..(Len(courses) + 1) : MainSelect(number)
    \/ \E course_name \in CourseNames : MainAddCourse(course_name)
    \/ \E section_name \in SectionNames, weight \in Weights :
           SetupSection(section_name, weight)
    \/ SetupDone
    \/ MainOther
    \/ MainQuit
    \/ Restart
    \/ \E number \in 0..(Cardinality(SectionNames) + 1) : CourseSelectSection(number)
    \/ \E grade \in Grades : EnterGrade(grade)
    \/ GradesDone
    \/ \E section_name \in SectionNames, new_weight \in Weights :
           CourseUpdateWeight(section_name, new_weight)
    \/ \E section_name \in SectionNames, weight \in Weights :
           CourseAddSection(section_name, weight)
    \/ CourseOther
    \/ CourseReturn

ShellSpec == ShellInit /\ [][ShellNext]_vars

(***************************************************************************)
(* Vocabulary of the properties                                            *)
(***************************************************************************)
IsPrefix(s, t) == Len(s) <= Len(t) /\ SubSeq(t, 1, Len(s)) = s

\* the courses the manager holds
Held == {courses[i].v : i \in 1..Len(courses)}

Graded(course) == {j \in 1..Len(course.sections) : course.sections[j].v.grades # <<>>}
Ungraded(course) == (1..Len(course.sections)) \ Graded(course)

\* a section name that is not in the course, or names a section without grades
NoGradesUnder(course, name) ==
    Has(course.sections, name) => Get(course.sections, name).grades = <<>>

RECURSIVE IntSum(_)
IntSum(s) == IF s = <<>> THEN 0 ELSE Head(s) + IntSum(Tail(s))

\* the sum of the fractions f[x], x in S, taken in no particular order
RECURSIVE SumOver(_, _)
SumOver(f, S) ==
    IF S = {} THEN Float(0)
    ELSE LET x == CHOOSE y \in S : TRUE IN FAdd(f[x], SumOver(f, S \ {x}))

\* the course with its sections rearranged by the permutation p of 1..Len
Rearranged(course, p) ==
    [course EXCEPT !.sections = [i \in 1..Len(course.sections) |-> course.sections[p[i]]]]

\* the course without its sections that have no grades
RECURSIVE GradedOnly(_)
GradedOnly(secs) ==
    IF secs = <<>> THEN <<>>
    ELSE IF Head(secs).v.grades = <<>> THEN GradedOnly(Tail(secs))
    ELSE <<Head(secs)>> \o GradedOnly(Tail(secs))

(***************************************************************************)
(* C1: calculate_current_grade returns None if and only if no section of   *)
(* the course has a recorded grade.  (The code also returns None for a     *)
(* course whose graded sections have weights that sum to 0.)               *)
(***************************************************************************)
C1_NoDataIffNothingGraded ==
    \A course \in Held :
        (calculate_current_grade(course) = None) <=> (Graded(course) = {})

(***************************************************************************)
(* C2: calculate_overall_grade is the sum over all sections of             *)
(* average * weight / 100, with average = sum(grades)/len(grades), or 0    *)
(* for a section without grades; a section without grades contributes 0    *)
(* whatever its weight; the order of the sections does not matter.         *)
(***************************************************************************)
OverallTerm(section) ==
    IF section.grades = <<>> THEN Float(0)
    ELSE Frac(IntSum(section.grades) * section.weight, Len(section.grades) * 100)

GradedWeight(course) ==
    IntSum([j \in 1..Len(GradedOnly(course.sections)) |->
                GradedOnly(course.sections)[j].v.weight])

CurrentValue(course) ==
    FDiv(SumOver([j \in Graded(course) |->
                    Frac(IntSum(course.sections[j].v.grades) * course.sections[j].v.weight,
                         Len(course.sections[j].v.grades))],
                 Graded(course)),
         Float(GradedWeight(course)))

\* C3: the value, and no influence of sections without grades
C3_CurrentGrade ==
    \A course \in Held :
        /\ GradedWeight(course) > 0 =>
               calculate_current_grade(course) = CurrentValue(course)
        /\ \A name \in SectionNames, weight \in Weights :
               NoGradesUnder(course, name) =>
                   /\ calculate_current_grade(add_section(course, name, weight)) =
                          calculate_current_grade(course)
                   /\ calculate_current_grade(update_section_weight(course, name, weight)) =
                          calculate_current_grade(course)

\* a course with two graded sections of different positive weights and
\* different averages
C3_Witness ==
    \E course \in Held :
        \E i, j \in Graded(course) :
            /\ 0 < course.sections[i].v.weight
            /\ course.sections[i].v.weight < course.sections[j].v.weight
            /\ average(course.sections[i].v) # average(course.sections[j].v)

\* a course with a graded and an ungraded section, both of positive weight
C3_WitnessUngraded ==
    \E course \in Held :
        /\ \E j \in Graded(course) : course.sections[j].v.weight > 0
        /\ \E j \in Ungraded(course) : course.sections[j].v.weight > 0

(***************************************************************************)
(* C4: add_section with the name of an existing section sets its weight    *)
(* and leaves its grades, the other sections and the order of the sections *)
(* as they are; with a new name it adds one section of that weight without *)
(* grades and changes no existing section; a second call with the same     *)
(* arguments changes nothing.                                              *)
(***************************************************************************)
C4_AddSection ==
    \A course \in Held, name \in SectionNames, weight \in Weights :
        LET after == add_section(course, name, weight)
            old == course.sections
            new == after.sections
        IN  /\ after.name = course.name
            /\ Has(new, name)
            /\ Get(new, name) =
                   Section(name, weight, IF Has(old, name) THEN Get(old, name).grades ELSE <<>>)
            /\ \A i \in 1..Len(old) : old[i].k # name => new[i] = old[i]
            /\ Keys(new) = IF Has(old, name) THEN Keys(old) ELSE Append(Keys(old), name)
            /\ add_section(after, name, weight) = after

\* a course with two sections, the first of them with grades: add_section
\* under the first name has grades and an order to keep
C4_Witness ==
    \E course \in Held :
        /\ Len(course.sections) = 2
        /\ Len(course.sections[1].v.grades) = 2

(***************************************************************************)
(* C5: add_assignment_grade and update_section_weight with a section name  *)
(* that is not in the course change nothing; get_course_by_index with an   *)
(* index outside [0, count), negative ones included, returns None.         *)
(***************************************************************************)
OutOfRange == ((0 - Len(courses) - 1)..(0 - 1)) \cup (Len(courses)..(Len(courses) + 1))

C5_Operations ==
    /\ \A course \in Held, name \in SectionNames :
           ~Has(course.sections, name) =>
               /\ \A grade \in Grades : add_assignment_grade(course, name, grade) = course
               /\ \A weight \in Weights : update_section_weight(course, name, weight) = course
    /\ \A index \in OutOfRange : get_course_by_index(courses, index) = None

C5_Calls ==
    \A c \in CourseNames, name \in SectionNames :
        (Has(courses, c) /\ ~Has(Get(courses, c).sections, name)) =>
            /\ \A grade \in Grades :
                   AddAssignmentGrade(c, name, grade) => UNCHANGED <<courses, file>>
            /\ \A weight \in Weights :
                   UpdateSectionWeight(c, name, weight) => UNCHANGED <<courses, file>>

\* C5: reference errors change nothing, as operations and as calls
C5_ReferenceErrors == [](C5_Operations) /\ [][C5_Calls]_vars

\* two courses, so that -1, -2 and 2 are indexes out of range, one of them
\* with a graded section and without the other section name
C5_Witness ==
    /\ Len(courses) = 2
    /\ \E course \in Held :
           /\ Len(course.sections) = 1
           /\ Graded(course) # {}

(***************************************************************************)
(* C8: list_courses is the distinct course names in the order in which     *)
(* they were first added; get_course_by_index(i), 0 <= i < count, is the   *)
(* course stored under the i-th name of that listing; a listed name keeps  *)
(* its index when courses are added, also under a name already in use.     *)
(***************************************************************************)
C8_Listing ==
    LET names == list_courses(courses)
    IN  /\ \A i, j \in 1..Len(names) : names[i] = names[j] => i = j
        /\ \A i \in 0..(Len(names) - 1) :
               /\ get_course_by_index(courses, i) = Get(courses, names[i + 1])
               /\ get_course_by_index(courses, i).name = names[i + 1]

\* a step only ever extends the listing at its end, by a name that was not listed
C8_Step ==
    LET names == list_courses(courses)
        after == list_courses(courses')
    IN  /\ IsPrefix(names, after)
        /\ \A name \in CourseNames :
               AddCourse(name) =>
                   after = IF Has(courses, name) THEN names ELSE Append(names, name)

\* C8: the listing is sound in every state and stable in every step
C8_StableIndices == [](C8_Listing) /\ [][C8_Step]_vars

\* two courses listed, the one listed first has no sections while the file
\* and the second course show that work has been done since
C8_Witness ==
    /\ Len(courses) = 2
    /\ courses[1].v.sections = <<>>
    /\ courses[2].v.sections # <<>>

(***************************************************************************)
(* C10: nothing is ever deleted: a listed course name stays listed, a      *)
(* section of the course of a name stays in the course of that name, and   *)
(* the grades of a section only grow at the end.                           *)
(***************************************************************************)
NamesKept == \A i \in 1..Len(courses) : Has(courses', courses[i].k)

SectionsKept ==
    \A i \in 1..Len(courses) :
        Has(courses', courses[i].k) =>
            \A j \in 1..Len(courses[i].v.sections) :
                LET section == courses[i].v.sections[j]
                    later == Get(courses', courses[i].k).sections
                IN  /\ Has(later, section.k)
                    /\ IsPrefix(section.v.grades, Get(later, section.k).grades)

\* C10 as claimed: every step keeps the names, the sections and the grades
C10_NothingDeleted == [][NamesKept /\ SectionsKept]_vars

\* add_course called with a name that is already listed
Overwrites == \E name \in CourseNames : Has(courses, name) /\ AddCourse(name)

\* C10 as amended: the names stay; the sections and grades stay in every step
\* but add_course under a listed name, which stores the course passed in
C10_NothingDeletedButByOverwrite ==
    [][/\ NamesKept
       /\ ~Overwrites => SectionsKept
       /\ \A name \in CourseNames :
              (Has(courses, name) /\ AddCourse(name)) =>
                  /\ Get(courses', name) = Course(name, <<>>)
                  /\ \A i \in 1..Len(courses) :
                         courses[i].k # name => courses'[i] = courses[i]]_vars

\* a section whose grades have grown twice, in a manager with two courses
C10_Witness ==
    /\ Len(courses) = 2
    /\ \E course \in Held : \E j \in Graded(course) : Len(course.sections[j].v.grades) = 2

(***************************************************************************)
(* C6: write-through: whenever the shell waits at a prompt, the dataset in *)
(* the backing file (a missing file being the empty dataset) is the        *)
(* dataset the manager holds in memory.                                    *)
(***************************************************************************)
\* what a dataset is: courses, each with its sections, each with its values
MemoryDataset(cs) ==
    [i \in 1..Len(cs) |->
        [key |-> cs[i].k,
         name |-> cs[i].v.name,
         sections |-> [j \in 1..Len(cs[i].v.sections) |->
                          [key |-> cs[i].v.sections[j].k,
                           name |-> cs[i].v.sections[j].v.name,
                           weight |-> cs[i].v.sections[j].v.weight,
                           grades |-> cs[i].v.sections[j].v.grades]]]]

StoredDataset(f) ==
    IF f.state = "absent" THEN <<>>
    ELSE [i \in 1..Len(f.data) |->
            LET stored == Get(f.data[i].v, "sections")
            IN  [key |-> f.data[i].k,
                 name |-> Get(f.data[i].v, "name"),
                 sections |-> [j \in 1..Len(stored) |->
                                  [key |-> stored[j].k,
                                   name |-> Get(stored[j].v, "name"),
                                   weight |-> Get(stored[j].v, "weight"),
                                   grades |-> Get(stored[j].v, "grades")]]]]

Prompts == {"main", "setup", "course", "grades"}

\* C6: at a prompt the file holds the dataset that is in memory
C6_WriteThrough ==
    pc \in Prompts => (file.state # "malformed" /\ StoredDataset(file) = MemoryDataset(courses))

\* back at the course menu after a grade has been entered
C6_Witness ==
    /\ pc = "course"
    /\ Graded(Get(courses, cur)) # {}
    /\ \E j \in Ungraded(Get(courses, cur)) : TRUE

(***************************************************************************)
(* C7: save_data, then load_data in a new manager, gives the same course   *)
(* names, the same section names in each course, and for each section the  *)
(* same weight and the same grades in the same order.                      *)
(***************************************************************************)
NamesIn(d) == {d[i].k : i \in 1..Len(d)}

SameContent(cs, ds) ==
    /\ NamesIn(cs) = NamesIn(ds)
    /\ \A c \in NamesIn(cs) :
           /\ Get(cs, c).name = Get(ds, c).name
           /\ NamesIn(Get(cs, c).sections) = NamesIn(Get(ds, c).sections)
           /\ \A n \in NamesIn(Get(cs, c).sections) :
                  /\ Get(Get(cs, c).sections, n).name = Get(Get(ds, c).sections, n).name
                  /\ Get(Get(cs, c).sections, n).weight = Get(Get(ds, c).sections, n).weight
                  /\ Get(Get(cs, c).sections, n).grades = Get(Get(ds, c).sections, n).grades

\* C7: what is saved and loaded again has the content of what is in memory
C7_RoundTrip ==
    LET loaded == load_data(save_data(courses))
    IN  /\ ~loaded.raised
        /\ SameContent(loaded.courses, courses)

\* a new session starts on a file that holds a course with a section of weight 0 without
\* grades and a section with two different grades
C7_Witness ==
    /\ pc = "boot"
    /\ file.state = "json"
    /\ \E course \in {c.v : c \in {load_data(file).courses[i] :
                                     i \in 1..Len(load_data(file).courses)}} :
           /\ \E j \in Ungraded(course) : course.sections[j].v.weight = 0
           /\ \E j \in Graded(course) :
                  /\ Len(course.sections[j].v.grades) = 2
                  /\ course.sections[j].v.grades[1] # course.sections[j].v.grades[2]

(***************************************************************************)
(* C9: on load a missing and a malformed backing file both count as the    *)
(* empty dataset: the construction of the manager completes, with no       *)
(* courses.                                                                *)
(***************************************************************************)
\* C9 as claimed: a start on a missing or malformed file reaches the main menu
\* with no courses
C9_BadFileIsEmptyDataset ==
    [][(Boot /\ file.state \in {"absent", "malformed"}) =>
           (pc' = "main" /\ courses' = <<>>)]_vars

\* C9 as amended: a missing file is the empty dataset; on a malformed file
\* load_data raises and the manager is not constructed
C9_MissingFileIsEmptyDataset ==
    [][Boot =>
           /\ file.state = "absent" => (pc' = "main" /\ courses' = <<>>)
           /\ file.state = "malformed" => pc' = "crashed"]_vars

\* the main menu of a session that started without a backing file
C9_Witness ==
    /\ pc = "main"
    /\ file = AbsentFile
    /\ courses = <<>>

====
